---- MODULE Spec2Model ----
(***************************************************************************)
(* Model of the LLM log viewer (src/src/main.rs): the JSON/JSONL loading   *)
(* pipeline, normalize, the markdown fence sanitizer and the AppState      *)
(* handlers that install a loaded conversation.                            *)
(*                                                                         *)
(* A Rust String is a sequence of characters. A letter is the string of    *)
(* that letter; the backtick, the space, the tab, the line feed, the       *)
(* carriage return, the zero-width space U+200B and the no-break space     *)
(* U+00A0 are the atoms BT, SP, TAB, LF, CR, ZWSP and NBSP.                *)
(***************************************************************************)
EXTENDS Integers, Sequences, FiniteSets, TLC

VARIABLES
    \* sanitize_chat_markdown, one call in progress
    san_text,      \* the text the first call was given
    san_input,     \* `input` of the current call
    san_i,         \* position of the `for line in input.lines()` loop
    san_out,       \* `out`, the lines emitted so far
    in_fence,      \* `in_fence`
    san_pc,        \* "loop" while in the loop, "done" after the join
    san_result,    \* the returned String
    san_pass,      \* 1 for the call on san_text, 2 for the call on its result
    \* normalize, one call in progress
    raw,           \* the Vec<RawMsg> passed in
    norm_i,        \* position of the `for rm in raw` loop
    norm_system,   \* the local `system`
    norm_messages, \* the local `messages`
    norm_pc,       \* "loop" while in the loop, "done" after the return
    norm_loaded,   \* the Loaded returned
    \* load_from_bytes, one call in progress
    bytes,         \* the file content passed in
    load_pc,       \* "utf8", "parse", "normalize", then "ok" or "err"
    load_parsed,   \* what detect_and_parse returned
    load_res,      \* the Result<Loaded> returned
    \* AppState
    file_name,
    system,
    messages,
    errors,
    scroll_area_key,
    last,          \* the outcome of the last handler run
    \* text_to_html_with_fences, one call in progress on the sanitized text
    html_i,        \* position of the `for line in s.lines()` loop
    html_out,      \* `out`
    html_in_fence, \* `in_fence`
    fence_lang,    \* `fence_lang`
    html_pc,       \* "idle", "loop" while in the loop, "done" after the return
    \* html_escape, one call in progress
    esc_s,         \* the argument `s`
    esc_i,         \* position of the `for c in s.chars()` loop
    esc_out,       \* `out`
    \* to_markdown, one call in progress on the AppState
    md_i,          \* position of the `for msg in &state.messages` loop
    md_out,        \* `out`
    md_pc,         \* "idle", "system", "loop", "done"
    \* the dropped-files branch of update, one run in progress
    dropped_files, \* `dropped_files`
    drop_i,        \* position of the `for f in dropped_files` loop
    drop_pc,       \* "idle", "loop", "done"
    self_before    \* self when the run started

sanVars == <<san_text, san_input, san_i, san_out, in_fence, san_pc, san_result, san_pass>>
normVars == <<raw, norm_i, norm_system, norm_messages, norm_pc, norm_loaded>>
loadVars == <<bytes, load_pc, load_parsed, load_res>>
appVars == <<file_name, system, messages, errors, scroll_area_key, last>>
htmlVars == <<html_i, html_out, html_in_fence, fence_lang, html_pc>>
escVars == <<esc_s, esc_i, esc_out>>
mdVars == <<md_i, md_out, md_pc>>
expVars == <<htmlVars, escVars, mdVars>>
dropVars == <<dropped_files, drop_i, drop_pc, self_before>>
vars == <<sanVars, normVars, loadVars, appVars, expVars, dropVars>>

-----------------------------------------------------------------------------
(* Characters and the std string functions the code calls. *)

BT == "BT"
SP == "SP"
TAB == "TAB"
LF == "LF"
CR == "CR"
ZWSP == "ZWSP"
NBSP == "NBSP"

\* char::is_whitespace (White_Space): U+200B is not whitespace, U+00A0 is.
IsWhitespace(c) == c \in {SP, TAB, LF, CR, NBSP}

\* char::is_alphanumeric, on the letters and digits of the alphabet used here.
IsAlphanumeric(c) == c \in {"a", "b", "s", "y", "t", "e", "m", "u", "r", "i", "n", "o", "l",
                            "S", "Y", "T", "E", "M", "U", "R", "x", "p", "1", "h"}

StartsWith(s, p) == Len(s) >= Len(p) /\ SubSeq(s, 1, Len(p)) = p

EndsWith(s, p) == Len(s) >= Len(p) /\ SubSeq(s, Len(s) - Len(p) + 1, Len(s)) = p

RECURSIVE TrimStart(_)
TrimStart(s) ==
    IF s # <<>> /\ IsWhitespace(Head(s)) THEN TrimStart(Tail(s)) ELSE s

RECURSIVE TrimEnd(_)
TrimEnd(s) ==
    IF s # <<>> /\ IsWhitespace(s[Len(s)]) THEN TrimEnd(SubSeq(s, 1, Len(s) - 1)) ELSE s

Trim(s) == TrimEnd(TrimStart(s))

\* str::replacen(pat, to, 1): the first match of pat, scanning from the left.
RECURSIVE ReplaceFirst(_, _, _)
ReplaceFirst(s, pat, to) ==
    IF Len(s) < Len(pat) THEN s
    ELSE IF StartsWith(s, pat) THEN to \o SubSeq(s, Len(pat) + 1, Len(s))
    ELSE <<Head(s)>> \o ReplaceFirst(Tail(s), pat, to)

StripCR(l) == IF l # <<>> /\ l[Len(l)] = CR THEN SubSeq(l, 1, Len(l) - 1) ELSE l

\* str::lines(): pieces end at LF; the LF and a CR right before it are
\* dropped; a last piece without LF is kept as it is, and an empty last
\* piece is not a line.
RECURSIVE LinesFrom(_, _, _)
LinesFrom(s, i, cur) ==
    IF i > Len(s) THEN (IF cur = <<>> THEN <<>> ELSE <<cur>>)
    ELSE IF s[i] = LF THEN <<StripCR(cur)>> \o LinesFrom(s, i + 1, <<>>)
    ELSE LinesFrom(s, i + 1, Append(cur, s[i]))

Lines(s) == LinesFrom(s, 1, <<>>)

\* [String]::join(LF)
RECURSIVE Join(_)
Join(ls) ==
    IF ls = <<>> THEN <<>>
    ELSE IF Len(ls) = 1 THEN ls[1]
    ELSE ls[1] \o <<LF>> \o Join(Tail(ls))

-----------------------------------------------------------------------------
(* sanitize_chat_markdown *)

Fence == <<BT, BT, BT>>
Defused == <<BT, BT, ZWSP, BT>>

LangPunct == {"_", "+", "-", ".", "#"}

\* `only_spaces_after || looks_like_lang` for a line whose trimmed start has
\* the prefix of three backticks.
LooksLikeOpener(rest) ==
    LET after == TrimEnd(rest)
        only_spaces_after == \A k \in 1..Len(rest) : IsWhitespace(rest[k])
        lang == Trim(after)
        looks_like_lang ==
            /\ lang # <<>>
            /\ \A k \in 1..Len(lang) : IsAlphanumeric(lang[k]) \/ lang[k] \in LangPunct
    IN only_spaces_after \/ looks_like_lang

IsFenceOpener(line) ==
    LET trimmed_start == TrimStart(line)
    IN /\ StartsWith(trimmed_start, Fence)
       /\ LooksLikeOpener(SubSeq(trimmed_start, 4, Len(trimmed_start)))

IsFenceCloser(line) ==
    LET trimmed_start == TrimStart(line)
    IN StartsWith(trimmed_start, Fence) /\ Trim(trimmed_start) = Fence

SanLineCloseOnPrefix(line, fence) ==
    LET trimmed_start == TrimStart(line)
    IN IF ~fence
       THEN IF StartsWith(trimmed_start, Fence)
            THEN IF LooksLikeOpener(SubSeq(trimmed_start, 4, Len(trimmed_start)))
                 THEN [emit |-> line, fence |-> TRUE]
                 ELSE [emit |-> ReplaceFirst(line, Fence, Defused), fence |-> FALSE]
            ELSE IF EndsWith(line, Fence)
                 THEN [emit |-> SubSeq(line, 1, Len(line) - 3) \o Defused, fence |-> FALSE]
                 ELSE [emit |-> line, fence |-> FALSE]
       ELSE [emit |-> line, fence |-> ~StartsWith(trimmed_start, Fence)]

SanLineNoHeadDefuse(line, fence) ==
    LET trimmed_start == TrimStart(line)
    IN IF ~fence
       THEN IF StartsWith(trimmed_start, Fence)
            THEN IF LooksLikeOpener(SubSeq(trimmed_start, 4, Len(trimmed_start)))
                 THEN [emit |-> line, fence |-> TRUE]
                 ELSE [emit |-> line, fence |-> FALSE]
            ELSE IF EndsWith(line, Fence)
                 THEN [emit |-> SubSeq(line, 1, Len(line) - 3) \o Defused, fence |-> FALSE]
                 ELSE [emit |-> line, fence |-> FALSE]
       ELSE [emit |-> line, fence |-> ~IsFenceCloser(line)]

\* The body of the loop for one line: the line pushed to `out` and the new
\* value of `in_fence`.
SanLine(line, fence) ==
    LET trimmed_start == TrimStart(line)
    IN IF ~fence
       THEN IF StartsWith(trimmed_start, Fence)
            THEN IF LooksLikeOpener(SubSeq(trimmed_start, 4, Len(trimmed_start)))
                 THEN [emit |-> line, fence |-> TRUE]
                 ELSE [emit |-> ReplaceFirst(line, Fence, Defused), fence |-> FALSE]
            ELSE IF EndsWith(line, Fence)
                 THEN [emit |-> SubSeq(line, 1, Len(line) - 3) \o Defused, fence |-> FALSE]
                 ELSE [emit |-> line, fence |-> FALSE]
       ELSE [emit |-> line, fence |-> ~IsFenceCloser(line)]

SanCloseNever(fence) == <<>>

SanCloseAlways(fence) == <<Fence>>

\* What is pushed after the loop.
SanClose(fence) == IF fence THEN <<Fence>> ELSE <<>>

\* The pieces the input texts are built from, and how many of them.
SanPieces == {Fence, <<BT>>, <<"a">>, <<SP>>, <<LF>>, <<CR>>}
MaxPieces == 4

RECURSIVE TextsUpTo(_)
TextsUpTo(n) ==
    IF n = 0 THEN {<<>>}
    ELSE LET T == TextsUpTo(n - 1) IN T \cup {t \o p : t \in T, p \in SanPieces}

SanTexts == TextsUpTo(MaxPieces)

-----------------------------------------------------------------------------
(* The data model: Option, Role, Msg, Loaded. *)

None == [some |-> FALSE, val |-> <<>>]
Some(v) == [some |-> TRUE, val |-> v]

\* Option<String> of a file name; names are whole strings.
NoName == [some |-> FALSE, val |-> ""]

RoleUser == [tag |-> "User", label |-> <<>>]
RoleAssistant == [tag |-> "Assistant", label |-> <<>>]
RoleOther(l) == [tag |-> "Other", label |-> l]

Msg(r, c) == [role |-> r, content |-> c]

\* Loaded::default()
LoadedDefault == [file_name |-> NoName, system |-> None, messages |-> <<>>, errors |-> <<>>]

-----------------------------------------------------------------------------
(* normalize and trim_chat_whitespace *)

StrSystem == <<"s", "y", "s", "t", "e", "m">>
StrUser == <<"u", "s", "e", "r">>
StrAssistant == <<"a", "s", "s", "i", "s", "t", "a", "n", "t">>
StrSystemExtra == <<"S", "y", "s", "t", "e", "m", SP, "(", "e", "x", "t", "r", "a", ")">>
StrEmpty == <<"(", "e", "m", "p", "t", "y", ")">>

\* char::to_lowercase on the letters used here.
ToLowerChar(c) ==
    CASE c = "A" -> "a" [] c = "E" -> "e" [] c = "L" -> "l" [] c = "M" -> "m"
      [] c = "O" -> "o" [] c = "R" -> "r" [] c = "S" -> "s" [] c = "T" -> "t"
      [] c = "U" -> "u" [] c = "Y" -> "y" [] OTHER -> c

\* str::to_lowercase
ToLowercase(s) == [k \in 1..Len(s) |-> ToLowerChar(s[k])]

RECURSIVE PopTrailing(_)
PopTrailing(s) ==
    IF s # <<>> /\ s[Len(s)] \in {SP, TAB, LF, CR}
    THEN PopTrailing(SubSeq(s, 1, Len(s) - 1)) ELSE s

RECURSIVE RemoveLeading(_)
RemoveLeading(s) ==
    IF s # <<>> /\ Head(s) \in {LF, CR} THEN RemoveLeading(Tail(s)) ELSE s

TrimBothEnds(input) == Trim(input)

trim_chat_whitespace(input) == RemoveLeading(PopTrailing(input))

\* `content` of the loop body: the cleaned text, or the placeholder.
ContentOf(cleaned) == IF Trim(cleaned) = <<>> THEN StrEmpty ELSE cleaned

NormContent(c) == ContentOf(trim_chat_whitespace(c))

\* The role given to a record that falls in the last match arm: `other` is
\* bound to role_lower.as_str().
OtherRoleOf(role_lower, rm) == RoleOther(role_lower)

NormArmLastSystemWins(acc, rm, content, role_lower) ==
    IF role_lower = StrSystem THEN [acc EXCEPT !.system = Some(content)]
    ELSE IF role_lower = StrUser
    THEN [acc EXCEPT !.messages = Append(@, Msg(RoleUser, content))]
    ELSE IF role_lower = StrAssistant
    THEN [acc EXCEPT !.messages = Append(@, Msg(RoleAssistant, content))]
    ELSE [acc EXCEPT !.messages = Append(@, Msg(OtherRoleOf(role_lower, rm), content))]

NormArmUserFirst(acc, rm, content, role_lower) ==
    IF role_lower = StrSystem
    THEN IF ~acc.system.some
         THEN [acc EXCEPT !.system = Some(content)]
         ELSE [acc EXCEPT !.messages = Append(@, Msg(RoleOther(StrSystemExtra), content))]
    ELSE IF role_lower = StrUser
    THEN [acc EXCEPT !.messages = <<Msg(RoleUser, content)>> \o @]
    ELSE IF role_lower = StrAssistant
    THEN [acc EXCEPT !.messages = Append(@, Msg(RoleAssistant, content))]
    ELSE [acc EXCEPT !.messages = Append(@, Msg(OtherRoleOf(role_lower, rm), content))]

\* The match on role_lower: acc holds the locals `system` and `messages`.
NormArm(acc, rm, content, role_lower) ==
    IF role_lower = StrSystem
    THEN IF ~acc.system.some
         THEN [acc EXCEPT !.system = Some(content)]
         ELSE [acc EXCEPT !.messages = Append(@, Msg(RoleOther(StrSystemExtra), content))]
    ELSE IF role_lower = StrUser
    THEN [acc EXCEPT !.messages = Append(@, Msg(RoleUser, content))]
    ELSE IF role_lower = StrAssistant
    THEN [acc EXCEPT !.messages = Append(@, Msg(RoleAssistant, content))]
    ELSE [acc EXCEPT !.messages = Append(@, Msg(OtherRoleOf(role_lower, rm), content))]

\* The body of the loop for one record.
NormRecord(acc, rm) == NormArm(acc, rm, NormContent(rm.content), ToLowercase(rm.role))

RECURSIVE NormFold(_, _)
NormFold(rs, acc) ==
    IF rs = <<>> THEN acc ELSE NormFold(Tail(rs), NormRecord(acc, Head(rs)))

\* Loaded { file_name: None, system, messages, errors: Vec::new() }
LoadedFrom(acc) ==
    [file_name |-> NoName, system |-> acc.system, messages |-> acc.messages, errors |-> <<>>]

\* normalize(raw) as one function, for its callers.
normalize(rs) == LoadedFrom(NormFold(rs, [system |-> None, messages |-> <<>>]))

\* The records normalize is run on: sequences of up to MaxRecs records with
\* a few roles and contents, and single records with every content of up to
\* MaxContent characters.
StrSYSTEM == <<"S", "Y", "S", "T", "E", "M">>
StrUserCap == <<"U", "s", "e", "r">>
StrTool == <<"T", "o", "o", "l">>

NormRoles == {StrSystem, StrSYSTEM, StrUserCap, StrAssistant, StrTool}
NormContents == {<<"a">>, <<SP, "b", LF>>, <<SP, LF>>}
ContentChars == {"a", SP, TAB, LF, CR, NBSP}
MaxRecs == 3
MaxContent == 3

RawMsgs(roles, contents) == {[role |-> r, content |-> c] : r \in roles, c \in contents}

RECURSIVE SeqsUpTo(_, _)
SeqsUpTo(S, n) ==
    IF n = 0 THEN {<<>>}
    ELSE LET T == SeqsUpTo(S, n - 1) IN T \cup {Append(t, x) : t \in T, x \in S}

NormInputs ==
    SeqsUpTo(RawMsgs(NormRoles, NormContents), MaxRecs)
    \cup {<<rm>> : rm \in RawMsgs({StrSystem, StrUserCap}, SeqsUpTo(ContentChars, MaxContent))}

-----------------------------------------------------------------------------
(* Files and the loading functions.                                        *)
(*                                                                         *)
(* A file content is described by what the decoders make of it: whether it *)
(* is UTF-8, its length in bytes, and either its lines (each blank, a line *)
(* that serde decodes as a RawMsg, or a line it rejects; with whether the  *)
(* line starts with '[') or, for a text that is one JSON array, its        *)
(* elements (each a RawMsg or not) and whether the array is well formed.   *)

NoMsg == [role |-> <<>>, content |-> <<>>]

LineBlank == [kind |-> "blank", bracket |-> FALSE, rm |-> NoMsg]
LineBad(b) == [kind |-> "bad", bracket |-> b, rm |-> NoMsg]
LineRec(rm) == [kind |-> "rec", bracket |-> FALSE, rm |-> rm]

ElemRec(rm) == [ok |-> TRUE, rm |-> rm]
ElemBad == [ok |-> FALSE, rm |-> NoMsg]

LinesDoc(ls, n) ==
    [utf8 |-> TRUE, len |-> n, form |-> "lines", lines |-> ls, elems |-> <<>>, closed |-> FALSE]
ArrayDoc(es, c, n) ==
    [utf8 |-> TRUE, len |-> n, form |-> "array", lines |-> <<>>, elems |-> es, closed |-> c]
NonUtf8Doc(n) ==
    [utf8 |-> FALSE, len |-> n, form |-> "lines", lines |-> <<>>, elems |-> <<>>, closed |-> FALSE]

\* 20 * 1024 * 1024
SizeLimit == 20971520

Ok(v) == [ok |-> TRUE, val |-> v, err |-> ""]
Err(e) == [ok |-> FALSE, val |-> <<>>, err |-> e]

ErrNonUtf8 == "Non-UTF8 file"
ErrArray == "JSON array parse error"
ErrRead == "Failed to read"

\* An entry of `errors`: the text, with the prefix the handler put before an
\* error and the number formatted into a parse warning.
Warning(prefix, msg, n) == [prefix |-> prefix, msg |-> msg, n |-> n]
ParseWarning(failed) == Warning("", "JSONL line(s) failed to parse", failed)
SizeWarning == Warning("", "File larger than ~20MB", 0)

\* text.chars().find(|c| !c.is_whitespace()): "[", another character, or none.
RECURSIVE FirstNonWsOfLines(_)
FirstNonWsOfLines(ls) ==
    IF ls = <<>> THEN "none"
    ELSE IF Head(ls).kind = "blank" THEN FirstNonWsOfLines(Tail(ls))
    ELSE IF Head(ls).bracket THEN "[" ELSE "other"

first_non_ws(doc) == IF doc.form = "array" THEN "[" ELSE FirstNonWsOfLines(doc.lines)

ParseJsonSkipBad(doc) ==
    IF doc.form = "array" /\ doc.closed
    THEN Ok(LET good == SelectSeq(doc.elems, LAMBDA e : e.ok)
            IN [k \in 1..Len(good) |-> good[k].rm])
    ELSE Err(ErrArray)

\* serde_json::from_slice::<Vec<RawMsg>>: every element must decode. A text
\* of lines that starts with '[' without being one JSON array is rejected.
parse_json(doc) ==
    IF doc.form = "array" /\ doc.closed /\ \A k \in 1..Len(doc.elems) : doc.elems[k].ok
    THEN Ok([k \in 1..Len(doc.elems) |-> doc.elems[k].rm])
    ELSE Err(ErrArray)

ParseJsonlStopAtFailure(ls, out, failed) ==
    LET bad == {k \in 1..Len(ls) : ls[k].kind = "bad"}
        upto == IF bad = {} THEN Len(ls) ELSE (CHOOSE k \in bad : \A j \in bad : k <= j) - 1
        good == SelectSeq(SubSeq(ls, 1, upto), LAMBDA l : l.kind = "rec")
    IN [out |-> out \o [k \in 1..Len(good) |-> good[k].rm],
        failed |-> failed + (IF bad = {} THEN 0 ELSE 1)]

\* The loop of parse_jsonl_with_errors over text.lines().
RECURSIVE ParseJsonlLoop(_, _, _)
ParseJsonlLoop(ls, out, failed) ==
    IF ls = <<>> THEN [out |-> out, failed |-> failed]
    ELSE IF Head(ls).kind = "blank" THEN ParseJsonlLoop(Tail(ls), out, failed)
    ELSE IF Head(ls).kind = "rec" THEN ParseJsonlLoop(Tail(ls), Append(out, Head(ls).rm), failed)
    ELSE ParseJsonlLoop(Tail(ls), out, failed + 1)

parse_jsonl_with_errors(doc) == ParseJsonlLoop(doc.lines, <<>>, 0)

\* The two arms of the match in detect_and_parse.
ArrayParsed(r) == IF r.ok THEN Ok([raws |-> r.val, warnings |-> <<>>]) ELSE Err(r.err)

JsonlParsed(r) ==
    Ok([raws |-> r.out,
        warnings |-> IF r.failed > 0 THEN <<ParseWarning(r.failed)>> ELSE <<>>])

DetectWithRetry(doc) ==
    IF first_non_ws(doc) = "[" /\ parse_json(doc).ok
    THEN ArrayParsed(parse_json(doc))
    ELSE JsonlParsed(parse_jsonl_with_errors(doc))

detect_and_parse(doc) ==
    IF first_non_ws(doc) = "["
    THEN ArrayParsed(parse_json(doc))
    ELSE JsonlParsed(parse_jsonl_with_errors(doc))

\* std::str::from_utf8(bytes).map_err(..)
from_utf8(doc) == IF doc.utf8 THEN Ok(doc) ELSE Err(ErrNonUtf8)

SizeWarningFirst(l, doc, warnings) ==
    IF doc.len > SizeLimit
    THEN [l EXCEPT !.errors = (@ \o <<SizeWarning>>) \o warnings]
    ELSE [l EXCEPT !.errors = @ \o warnings]

\* l.errors.append(&mut warnings), and the push of the size warning.
WithWarnings(l, doc, warnings) ==
    IF doc.len > SizeLimit
    THEN [l EXCEPT !.errors = (@ \o warnings) \o <<SizeWarning>>]
    ELSE [l EXCEPT !.errors = @ \o warnings]

\* The tail of load_from_bytes: normalize, then the warnings.
LoadedOf(doc, parsed) == WithWarnings(normalize(parsed.raws), doc, parsed.warnings)

\* The `?` on detect_and_parse and the Ok(l).
LoadResult(doc, p) == IF ~p.ok THEN Err(p.err) ELSE Ok(LoadedOf(doc, p.val))

load_from_bytes(doc) ==
    IF ~from_utf8(doc).ok THEN Err(ErrNonUtf8) ELSE LoadResult(doc, detect_and_parse(doc))

\* loaded.file_name = Some(name) on a load that succeeded.
Named(r, name) ==
    IF ~r.ok THEN r ELSE Ok([r.val EXCEPT !.file_name = [some |-> TRUE, val |-> name]])

\* A path: whether fs::read succeeds, its file name, and the content read.
load_from_path(path) ==
    IF ~path.readable THEN Err(ErrRead) ELSE Named(load_from_bytes(path.doc), path.name)

\* The file contents load_from_bytes is run on.
MsgUserA == [role |-> StrUserCap, content |-> <<"a">>]
MsgSystemS == [role |-> StrSystem, content |-> <<"s">>]
MsgToolB == [role |-> StrTool, content |-> <<"b">>]

DocLines == {LineBlank, LineBad(FALSE), LineBad(TRUE), LineRec(MsgUserA), LineRec(MsgSystemS),
             LineRec(MsgToolB)}
DocElems == {ElemRec(MsgUserA), ElemRec(MsgSystemS), ElemBad}
DocLens == {SizeLimit, SizeLimit + 1}
MaxLines == 3
MaxElems == 2

Docs ==
    {NonUtf8Doc(n) : n \in DocLens}
    \cup {LinesDoc(ls, n) : ls \in SeqsUpTo(DocLines, MaxLines), n \in DocLens}
    \cup {ArrayDoc(es, c, n) : es \in SeqsUpTo(DocElems, MaxElems), c \in BOOLEAN, n \in DocLens}

-----------------------------------------------------------------------------
(* html_escape *)

\* The characters html_escape matches on; the double quote and the
\* backslash are the atoms QUOT and BSL, the apostrophe is APOS.
AMP == "&"
LT == "<"
GT == ">"
QUOT == "QUOT"
BSL == "BSL"
APOS == "APOS"

EntAmp == <<"&", "a", "m", "p", ";">>
EntLt == <<"&", "l", "t", ";">>
EntGt == <<"&", "g", "t", ";">>
EntQuot == <<"&", "q", "u", "o", "t", ";">>
EntBsl == <<"&", "#", "9", "2", ";">>

EscapeCharNoBackslash(c) ==
    CASE c = AMP -> EntAmp
      [] c = LT -> EntLt
      [] c = GT -> EntGt
      [] c = QUOT -> EntQuot
      [] OTHER -> <<c>>

\* The match on c: what is pushed to `out` for one character.
EscapeChar(c) ==
    CASE c = AMP -> EntAmp
      [] c = LT -> EntLt
      [] c = GT -> EntGt
      [] c = QUOT -> EntQuot
      [] c = BSL -> EntBsl
      [] OTHER -> <<c>>

\* html_escape(s) as one function, for its callers.
RECURSIVE html_escape(_)
html_escape(s) == IF s = <<>> THEN <<>> ELSE EscapeChar(Head(s)) \o html_escape(Tail(s))

\* The strings html_escape is run on.
EscChars == {AMP, LT, GT, QUOT, BSL, APOS, "a", ";", "#"}
MaxEsc == 3
EscInputs == SeqsUpTo(EscChars, MaxEsc)

-----------------------------------------------------------------------------
(* text_to_html_with_fences *)

TagPreCode == <<"<", "p", "r", "e", ">", "<", "c", "o", "d", "e", ">">>
TagPreCodeLang ==
    <<"<", "p", "r", "e", ">", "<", "c", "o", "d", "e", SP, "c", "l", "a", "s", "s", "=", QUOT,
      "l", "a", "n", "g", "u", "a", "g", "e", "-">>
TagLangEnd == <<QUOT, ">">>
TagClose == <<"<", "/", "c", "o", "d", "e", ">", "<", "/", "p", "r", "e", ">", LF>>

\* The push of the opening tag for the text after the three backticks.
HtmlOpen(lang) ==
    IF lang = <<>> THEN TagPreCode ELSE (TagPreCodeLang \o html_escape(lang)) \o TagLangEnd

HtmlLineNoLineFeed(line, fence, trimmed) ==
    IF ~fence
    THEN IF StartsWith(trimmed, Fence)
         THEN [push |-> HtmlOpen(Trim(SubSeq(trimmed, 4, Len(trimmed)))), fence |-> TRUE,
               lang |-> IF Trim(SubSeq(trimmed, 4, Len(trimmed))) = <<>> THEN None
                        ELSE Some(Trim(SubSeq(trimmed, 4, Len(trimmed))))]
         ELSE [push |-> Append(html_escape(line), LF), fence |-> FALSE, lang |-> None]
    ELSE IF StartsWith(trimmed, Fence) /\ Trim(trimmed) = Fence
         THEN [push |-> TagClose, fence |-> FALSE, lang |-> None]
         ELSE [push |-> html_escape(line), fence |-> TRUE, lang |-> None]

\* The body of the loop for one line, with trimmed = line.trim_start():
\* what is pushed to `out`, the new in_fence and, when it is assigned, the
\* new fence_lang.
HtmlLine(line, fence, trimmed) ==
    IF ~fence
    THEN IF StartsWith(trimmed, Fence)
         THEN [push |-> HtmlOpen(Trim(SubSeq(trimmed, 4, Len(trimmed)))), fence |-> TRUE,
               lang |-> IF Trim(SubSeq(trimmed, 4, Len(trimmed))) = <<>> THEN None
                        ELSE Some(Trim(SubSeq(trimmed, 4, Len(trimmed))))]
         ELSE [push |-> Append(html_escape(line), LF), fence |-> FALSE, lang |-> None]
    ELSE IF StartsWith(trimmed, Fence) /\ Trim(trimmed) = Fence
         THEN [push |-> TagClose, fence |-> FALSE, lang |-> None]
         ELSE [push |-> Append(html_escape(line), LF), fence |-> TRUE, lang |-> None]

\* What is pushed after the loop.
HtmlClose(fence) == IF fence THEN TagClose ELSE <<>>

\* The texts given to the sanitizer before the conversion: the texts of the
\* sanitizer, and fenced blocks with a language tag and up to MaxCode code
\* lines that are never closed.
StrPython == <<"p", "y", "t", "h", "o", "n">>
StrPrint1 == <<"p", "r", "i", "n", "t", "(", "1", ")">>
FenceLangs == {StrPython, <<"a">>}
CodeLines == {StrPrint1, <<"a", LT, "b">>, Fence \o <<"a">>}
MaxCode == 2
FenceExamples ==
    {((Fence \o l) \o <<LF>>) \o Join(cs) :
        l \in FenceLangs, cs \in SeqsUpTo(CodeLines, MaxCode) \ {<<>>}}
HtmlTexts == SanTexts \cup FenceExamples

-----------------------------------------------------------------------------
(* to_markdown and title_case *)

\* Role::System, which normalize never builds.
RoleSystem == [tag |-> "System", label |-> <<>>]

\* char::to_uppercase on the letters used here.
ToUpperChar(c) ==
    CASE c = "a" -> "A" [] c = "e" -> "E" [] c = "l" -> "L" [] c = "m" -> "M"
      [] c = "o" -> "O" [] c = "r" -> "R" [] c = "s" -> "S" [] c = "t" -> "T"
      [] c = "u" -> "U" [] c = "y" -> "Y" [] OTHER -> c

TitleCaseAsIs(s) == s

\* first.to_uppercase() + &it.as_str().to_lowercase()
title_case(s) ==
    IF s = <<>> THEN <<>> ELSE <<ToUpperChar(Head(s))>> \o ToLowercase(Tail(s))

LabelUser == <<"U", "s", "e", "r">>
LabelAssistant == <<"A", "s", "s", "i", "s", "t", "a", "n", "t">>
LabelSystem == <<"S", "y", "s", "t", "e", "m">>

\* The match on &msg.role.
role_label(role) ==
    CASE role.tag = "User" -> LabelUser
      [] role.tag = "Assistant" -> LabelAssistant
      [] role.tag = "System" -> LabelSystem
      [] OTHER -> title_case(role.label)

\* The three push_str of the system section.
MdSystemSection(sys) ==
    <<"#", SP, "S", "y", "s", "t", "e", "m", LF>> \o sys \o <<LF, LF, "-", "-", "-", LF, LF>>

\* format!("**{}**  \n{}\n\n", role_label, msg.content)
MdTurn(msg) ==
    <<"*", "*">> \o role_label(msg.role) \o <<"*", "*", SP, SP, LF>> \o msg.content \o <<LF, LF>>

\* The conversations to_markdown is run on: what normalize returns for up
\* to MaxRecs records.
MdRoles == {StrSystem, StrUserCap, StrAssistant, StrTool}
MdContents == {<<"a">>, <<"a", BT, BT, BT>>}
MdInputs == SeqsUpTo(RawMsgs(MdRoles, MdContents), MaxRecs)

-----------------------------------------------------------------------------
(* States in which a part of the program is not running. *)

SanIdle ==
    /\ san_text = <<>> /\ san_input = <<>> /\ san_i = 1 /\ san_out = <<>>
    /\ in_fence = FALSE /\ san_pc = "done" /\ san_result = <<>> /\ san_pass = 2

NormIdle ==
    /\ raw = <<>> /\ norm_i = 1 /\ norm_system = None /\ norm_messages = <<>>
    /\ norm_pc = "done" /\ norm_loaded = LoadedDefault

LoadIdle ==
    /\ bytes = NonUtf8Doc(0) /\ load_pc = "err" /\ load_parsed = Err("")
    /\ load_res = Err(ErrNonUtf8)

HtmlIdle ==
    /\ html_i = 1 /\ html_out = <<>> /\ html_in_fence = FALSE /\ fence_lang = None
    /\ html_pc = "idle"

EscIdle == esc_s = <<>> /\ esc_i = 1 /\ esc_out = <<>>

MdIdle == md_i = 1 /\ md_out = <<>> /\ md_pc = "idle"

ExpIdle == HtmlIdle /\ EscIdle /\ MdIdle

DropIdle ==
    /\ dropped_files = <<>> /\ drop_i = 1 /\ drop_pc = "idle"
    /\ self_before = [file_name |-> NoName, system |-> None, messages |-> <<>>,
                      errors |-> <<>>, scroll_area_key |-> ""]

\* AppState::default(), the fields the handlers below touch.
AppDefault ==
    /\ file_name = NoName /\ system = None /\ messages = <<>> /\ errors = <<>>
    /\ scroll_area_key = ""
    /\ last = "init"

-----------------------------------------------------------------------------
(* normalize as a process. *)

NormInit ==
    /\ raw \in NormInputs
    /\ norm_i = 1
    /\ norm_system = None
    /\ norm_messages = <<>>
    /\ norm_pc = "loop"
    /\ norm_loaded = LoadedDefault
    /\ SanIdle
    /\ LoadIdle
    /\ AppDefault
    /\ ExpIdle
    /\ DropIdle

\* One iteration of `for rm in raw`.
NormStep ==
    /\ norm_pc = "loop"
    /\ norm_i <= Len(raw)
    /\ norm_system' =
           NormRecord([system |-> norm_system, messages |-> norm_messages], raw[norm_i]).system
    /\ norm_messages' =
           NormRecord([system |-> norm_system, messages |-> norm_messages], raw[norm_i]).messages
    /\ norm_i' = norm_i + 1
    /\ UNCHANGED <<raw, norm_pc, norm_loaded, sanVars, loadVars, appVars, expVars, dropVars>>

\* The return: Loaded { file_name: None, system, messages, errors: [] }.
NormReturn ==
    /\ norm_pc = "loop"
    /\ norm_i > Len(raw)
    /\ norm_loaded' = LoadedFrom([system |-> norm_system, messages |-> norm_messages])
    /\ norm_pc' = "done"
    /\ UNCHANGED <<raw, norm_i, norm_system, norm_messages, sanVars, loadVars, appVars, expVars, dropVars>>

NormNext == NormStep \/ NormReturn

SpecNorm == NormInit /\ [][NormNext]_vars

-----------------------------------------------------------------------------
(* AppState and its handlers (eframe::App::update). *)

\* The fields of self the handlers write.
Self ==
    [file_name |-> file_name, system |-> system, messages |-> messages,
     errors |-> errors, scroll_area_key |-> scroll_area_key]

\* AppState::default()
SelfDefault ==
    [file_name |-> NoName, system |-> None, messages |-> <<>>,
     errors |-> <<>>, scroll_area_key |-> ""]

set_loaded_keeping_errors(st, loaded) ==
    [file_name |-> loaded.file_name, system |-> loaded.system,
     messages |-> loaded.messages, errors |-> st.errors \o loaded.errors,
     scroll_area_key |-> IF loaded.file_name.some THEN loaded.file_name.val ELSE "__empty__"]

set_loaded(st, loaded) ==
    [file_name |-> loaded.file_name, system |-> loaded.system,
     messages |-> loaded.messages, errors |-> loaded.errors,
     scroll_area_key |-> IF loaded.file_name.some THEN loaded.file_name.val ELSE "__empty__"]

\* self.errors.push(..)
PushError(st, w) == [st EXCEPT !.errors = Append(@, w)]

OpenResultResetting(st, r) ==
    IF r.ok THEN set_loaded(st, r.val)
    ELSE set_loaded(st, [LoadedDefault EXCEPT !.errors = <<Warning("Failed to load: ", r.err, 0)>>])

\* The match on load_from_path(&path) of the "Open file" button.
OpenResult(st, r) ==
    IF r.ok THEN set_loaded(st, r.val)
    ELSE PushError(st, Warning("Failed to load: ", r.err, 0))

\* A dropped file: it has a path, or only bytes, or neither.
DropPath(p) == [kind |-> "path", path |-> p, doc |-> p.doc]
DropBytes(d) == [kind |-> "bytes", path |-> [readable |-> FALSE, name |-> "", doc |-> d], doc |-> d]
DropNothing ==
    [kind |-> "none", path |-> [readable |-> FALSE, name |-> "", doc |-> NonUtf8Doc(0)],
     doc |-> NonUtf8Doc(0)]

\* What loading a dropped file returns, with the name given to dropped bytes.
DropLoad(f) ==
    IF f.kind = "path" THEN load_from_path(f.path)
    ELSE Named(load_from_bytes(f.doc), "(dropped)")

DropErrorPrefix(f) ==
    IF f.kind = "path" THEN "Failed to load dropped file: " ELSE "Failed to parse dropped bytes: "

\* The files offered to the handlers.
Path(name, doc) == [readable |-> TRUE, name |-> name, doc |-> doc]
PathGone == [readable |-> FALSE, name |-> "gone.json", doc |-> NonUtf8Doc(0)]

DocJsonl == LinesDoc(<<LineRec(MsgUserA), LineBad(FALSE), LineRec(MsgToolB)>>, SizeLimit)
DocArray == ArrayDoc(<<ElemRec(MsgSystemS), ElemRec(MsgUserA)>>, TRUE, SizeLimit)
DocBrokenArray == ArrayDoc(<<ElemRec(MsgUserA), ElemBad>>, TRUE, SizeLimit)
DocBinary == NonUtf8Doc(SizeLimit)
DocBigJsonl == LinesDoc(<<LineRec(MsgToolB)>>, SizeLimit + 1)

AppPaths ==
    {PathGone, Path("chat.jsonl", DocJsonl), Path("chat.json", DocArray),
     Path("bad.json", DocBrokenArray), Path("image.png", DocBinary),
     Path("big.jsonl", DocBigJsonl)}

DropItems ==
    {DropPath(p) : p \in AppPaths \ {Path("big.jsonl", DocBigJsonl)}}
    \cup {DropBytes(DocJsonl), DropBytes(DocBinary), DropNothing}

MaxErrors == 2
MaxDrop == 2

DropLists == SeqsUpTo(DropItems, MaxDrop) \ {<<>>}

\* What load_from_path and the load of a dropped file return for each of
\* these files.
PathLoads == [p \in AppPaths |-> load_from_path(p)]
DropLoads == [f \in DropItems |-> DropLoad(f)]

\* The loop `for f in dropped_files`: DropArm is the match on the load of
\* the first file, with its break.
RECURSIVE DropLoop(_, _)
RECURSIVE DropArm(_, _, _)
DropLoop(fs, st) ==
    IF fs = <<>> THEN st
    ELSE IF Head(fs).kind = "none" THEN DropLoop(Tail(fs), st)
    ELSE DropArm(fs, st, DropLoads[Head(fs)])

DropArm(fs, st, r) ==
    IF r.ok THEN set_loaded(st, r.val)
    ELSE DropLoop(Tail(fs), PushError(st, Warning(DropErrorPrefix(Head(fs)), r.err, 0)))

\* Whether the drop installed a file, only pushed errors, or did nothing.
DropOutcome(fs) ==
    IF \E k \in 1..Len(fs) : fs[k].kind # "none" /\ DropLoads[fs[k]].ok THEN "drop_ok"
    ELSE IF \E k \in 1..Len(fs) : fs[k].kind # "none" THEN "drop_err"
    ELSE "drop_none"

Install(st) ==
    /\ file_name' = st.file_name
    /\ system' = st.system
    /\ messages' = st.messages
    /\ errors' = st.errors
    /\ scroll_area_key' = st.scroll_area_key

Init ==
    /\ AppDefault
    /\ SanIdle
    /\ NormIdle
    /\ LoadIdle
    /\ ExpIdle
    /\ DropIdle

\* The handler ends with self = st (within the bound on errors).
Finish(st, outcome) ==
    /\ Len(st.errors) <= MaxErrors
    /\ Install(st)
    /\ last' = outcome
    /\ UNCHANGED <<sanVars, normVars, loadVars, expVars, dropVars>>

\* "Open file": a path was picked in the dialog.
OpenFile ==
    \E path \in AppPaths :
        Finish(OpenResult(Self, PathLoads[path]),
               IF PathLoads[path].ok THEN "open_ok" ELSE "open_err")

\* "Clear": *self = AppState { theme_dark, text_scale, ..Default::default() }
Clear == Finish(SelfDefault, "clear")

\* "Dismiss", shown while errors is not empty.
Dismiss ==
    /\ errors # <<>>
    /\ errors' = <<>>
    /\ last' = "dismiss"
    /\ UNCHANGED <<file_name, system, messages, scroll_area_key, sanVars, normVars, loadVars, expVars, dropVars>>

\* "Export HTML": fs::write failed.
ExportHtmlFailed ==
    Finish(PushError(Self, Warning("Failed to export HTML: ", "write error", 0)), "export_err")

\* Files were dropped on the window.
DropFiles == \E fs \in DropLists : Finish(DropLoop(fs, Self), DropOutcome(fs))

Next == OpenFile \/ Clear \/ Dismiss \/ ExportHtmlFailed \/ DropFiles

Spec == Init /\ [][Next]_vars

-----------------------------------------------------------------------------
(* The dropped-files branch of update as a process, file by file. *)

DropFileNoBreak(f, st, r) ==
    IF f.kind = "none" THEN [st |-> st, brk |-> FALSE]
    ELSE IF r.ok THEN [st |-> set_loaded(st, r.val), brk |-> FALSE]
    ELSE [st |-> PushError(st, Warning(DropErrorPrefix(f), r.err, 0)), brk |-> FALSE]

\* One iteration of the loop on the file f, with r what its load returned:
\* self afterwards, and whether the loop is left by `break`.
DropFile(f, st, r) ==
    IF f.kind = "none" THEN [st |-> st, brk |-> FALSE]
    ELSE IF r.ok THEN [st |-> set_loaded(st, r.val), brk |-> TRUE]
    ELSE [st |-> PushError(st, Warning(DropErrorPrefix(f), r.err, 0)), brk |-> FALSE]

\* The states of self the files are dropped on: nothing loaded; chat.jsonl
\* opened, with its parse warning; the same after an export that failed.
SelfOpened == OpenResult(SelfDefault, PathLoads[Path("chat.jsonl", DocJsonl)])
SelfExportFailed == PushError(SelfOpened, Warning("Failed to export HTML: ", "write error", 0))
DropStarts == {SelfDefault, SelfOpened, SelfExportFailed}

DropInit ==
    /\ dropped_files \in DropLists
    /\ drop_i = 1
    /\ drop_pc = "loop"
    /\ self_before \in DropStarts
    /\ file_name = self_before.file_name
    /\ system = self_before.system
    /\ messages = self_before.messages
    /\ errors = self_before.errors
    /\ scroll_area_key = self_before.scroll_area_key
    /\ last = (IF self_before = SelfDefault THEN "init"
               ELSE IF self_before = SelfOpened THEN "open_ok" ELSE "export_err")
    /\ ExpIdle
    /\ SanIdle
    /\ NormIdle
    /\ LoadIdle

\* The iteration ends with res.
DropStepTo(res) ==
    /\ Install(res.st)
    /\ IF res.brk
       THEN drop_pc' = "done" /\ drop_i' = drop_i /\ last' = "drop_ok"
       ELSE drop_pc' = "loop" /\ drop_i' = drop_i + 1 /\ last' = last

\* One iteration of `for f in dropped_files`.
DropStep ==
    /\ drop_pc = "loop"
    /\ drop_i <= Len(dropped_files)
    /\ DropStepTo(DropFile(dropped_files[drop_i], Self, DropLoads[dropped_files[drop_i]]))
    /\ UNCHANGED <<dropped_files, self_before, expVars, sanVars, normVars, loadVars>>

\* The loop ends without a break.
DropEnd ==
    /\ drop_pc = "loop"
    /\ drop_i > Len(dropped_files)
    /\ drop_pc' = "done"
    /\ last' = DropOutcome(dropped_files)
    /\ UNCHANGED <<file_name, system, messages, errors, scroll_area_key, dropped_files,
                   drop_i, self_before, expVars, sanVars, normVars, loadVars>>

DropNext == DropStep \/ DropEnd

SpecDrop == DropInit /\ [][DropNext]_vars

-----------------------------------------------------------------------------
(* load_from_bytes as a process. *)

LoadInit ==
    /\ bytes \in Docs
    /\ load_pc = "utf8"
    /\ load_parsed = Err("")
    /\ load_res = Err("")
    /\ SanIdle
    /\ NormIdle
    /\ AppDefault
    /\ ExpIdle
    /\ DropIdle

\* std::str::from_utf8(bytes)?
LoadDecode ==
    /\ load_pc = "utf8"
    /\ IF from_utf8(bytes).ok
       THEN load_pc' = "parse" /\ UNCHANGED load_res
       ELSE load_pc' = "err" /\ load_res' = Err(from_utf8(bytes).err)
    /\ UNCHANGED <<bytes, load_parsed, sanVars, normVars, appVars, expVars, dropVars>>

\* detect_and_parse(text)?
LoadParse ==
    /\ load_pc = "parse"
    /\ load_parsed' = detect_and_parse(bytes)
    /\ IF load_parsed'.ok
       THEN load_pc' = "normalize" /\ UNCHANGED load_res
       ELSE load_pc' = "err" /\ load_res' = Err(load_parsed'.err)
    /\ UNCHANGED <<bytes, sanVars, normVars, appVars, expVars, dropVars>>

\* normalize(raws), the warnings, Ok(l)
LoadNormalize ==
    /\ load_pc = "normalize"
    /\ load_res' = Ok(LoadedOf(bytes, load_parsed.val))
    /\ load_pc' = "ok"
    /\ UNCHANGED <<bytes, load_parsed, sanVars, normVars, appVars, expVars, dropVars>>

LoadNext == LoadDecode \/ LoadParse \/ LoadNormalize

SpecLoad == LoadInit /\ [][LoadNext]_vars

-----------------------------------------------------------------------------
(* sanitize_chat_markdown as a process. *)

\* A call sanitize_chat_markdown(x) starts: out is empty, in_fence is false.
SanInit ==
    /\ san_text \in SanTexts
    /\ san_input = san_text
    /\ san_i = 1
    /\ san_out = <<>>
    /\ in_fence = FALSE
    /\ san_pc = "loop"
    /\ san_result = <<>>
    /\ san_pass = 1
    /\ NormIdle
    /\ LoadIdle
    /\ AppDefault
    /\ ExpIdle
    /\ DropIdle

\* One iteration of the loop.
SanStep ==
    /\ san_pc = "loop"
    /\ san_i <= Len(Lines(san_input))
    /\ LET r == SanLine(Lines(san_input)[san_i], in_fence)
       IN /\ san_out' = Append(san_out, r.emit)
          /\ in_fence' = r.fence
    /\ san_i' = san_i + 1
    /\ UNCHANGED <<san_text, san_input, san_pc, san_result, san_pass, normVars, loadVars, appVars, expVars, dropVars>>

\* After the loop: close an open fence, join, return.
SanFinish ==
    /\ san_pc = "loop"
    /\ san_i > Len(Lines(san_input))
    /\ san_out' = san_out \o SanClose(in_fence)
    /\ san_result' = Join(san_out')
    /\ san_pc' = "done"
    /\ UNCHANGED <<san_text, san_input, san_i, in_fence, san_pass, normVars, loadVars, appVars, expVars, dropVars>>

\* The result is sanitized again (the render and export paths sanitize text
\* each time it is shown).
SanAgain ==
    /\ san_pc = "done"
    /\ san_pass = 1
    /\ san_input' = san_result
    /\ san_i' = 1
    /\ san_out' = <<>>
    /\ in_fence' = FALSE
    /\ san_pc' = "loop"
    /\ san_result' = <<>>
    /\ san_pass' = 2
    /\ UNCHANGED <<san_text, normVars, loadVars, appVars, expVars, dropVars>>

SanNext == SanStep \/ SanFinish \/ SanAgain

SpecSan == SanInit /\ [][SanNext]_vars

-----------------------------------------------------------------------------
(* html_escape as a process. *)

EscInit ==
    /\ esc_s \in EscInputs
    /\ esc_i = 1
    /\ esc_out = <<>>
    /\ HtmlIdle /\ MdIdle
    /\ SanIdle
    /\ NormIdle
    /\ LoadIdle
    /\ AppDefault
    /\ DropIdle

\* One iteration of `for c in s.chars()`.
EscStep ==
    /\ esc_i <= Len(esc_s)
    /\ esc_out' = esc_out \o EscapeChar(esc_s[esc_i])
    /\ esc_i' = esc_i + 1
    /\ UNCHANGED <<esc_s, htmlVars, mdVars, sanVars, normVars, loadVars, appVars, dropVars>>

EscNext == EscStep

SpecEsc == EscInit /\ [][EscNext]_vars

-----------------------------------------------------------------------------
(* to_markdown as a process, on an AppState with a file loaded. *)

MdInit ==
    /\ \E rs \in MdInputs :
           /\ system = normalize(rs).system
           /\ messages = normalize(rs).messages
    /\ file_name = [some |-> TRUE, val |-> "chat.jsonl"]
    /\ errors = <<>>
    /\ scroll_area_key = "chat.jsonl"
    /\ last = "open_ok"
    /\ md_i = 1
    /\ md_out = <<>>
    /\ md_pc = "system"
    /\ HtmlIdle /\ EscIdle
    /\ SanIdle
    /\ NormIdle
    /\ LoadIdle
    /\ DropIdle

\* if let Some(sys) = &state.system { .. }
MdSystem ==
    /\ md_pc = "system"
    /\ md_out' = IF system.some THEN md_out \o MdSystemSection(system.val) ELSE md_out
    /\ md_pc' = "loop"
    /\ UNCHANGED <<md_i, htmlVars, escVars, sanVars, normVars, loadVars, appVars, dropVars>>

\* One iteration of `for msg in &state.messages`.
MdStep ==
    /\ md_pc = "loop"
    /\ md_i <= Len(messages)
    /\ md_out' = md_out \o MdTurn(messages[md_i])
    /\ md_i' = md_i + 1
    /\ UNCHANGED <<md_pc, htmlVars, escVars, sanVars, normVars, loadVars, appVars, dropVars>>

\* The return of `out`.
MdReturn ==
    /\ md_pc = "loop"
    /\ md_i > Len(messages)
    /\ md_pc' = "done"
    /\ UNCHANGED <<md_i, md_out, htmlVars, escVars, sanVars, normVars, loadVars, appVars, dropVars>>

MdNext == MdSystem \/ MdStep \/ MdReturn

SpecMd == MdInit /\ [][MdNext]_vars

-----------------------------------------------------------------------------
(* sanitize_chat_markdown followed by text_to_html_with_fences, as to_html *)
(* calls them on a content.                                                *)

HtmlInit ==
    /\ san_text \in HtmlTexts
    /\ san_input = san_text
    /\ san_i = 1
    /\ san_out = <<>>
    /\ in_fence = FALSE
    /\ san_pc = "loop"
    /\ san_result = <<>>
    /\ san_pass = 1
    /\ ExpIdle
    /\ NormIdle
    /\ LoadIdle
    /\ AppDefault
    /\ DropIdle

\* text_to_html_with_fences(&sanitized) starts.
HtmlStart ==
    /\ san_pc = "done" /\ san_pass = 1
    /\ html_pc = "idle"
    /\ html_pc' = "loop"
    /\ html_i' = 1
    /\ html_out' = <<>>
    /\ html_in_fence' = FALSE
    /\ fence_lang' = None
    /\ UNCHANGED <<escVars, mdVars, sanVars, normVars, loadVars, appVars, dropVars>>

\* One iteration of `for line in s.lines()`.
HtmlStep ==
    /\ html_pc = "loop"
    /\ html_i <= Len(Lines(san_result))
    /\ html_out' = html_out \o HtmlLine(Lines(san_result)[html_i], html_in_fence,
                                        TrimStart(Lines(san_result)[html_i])).push
    /\ html_in_fence' = HtmlLine(Lines(san_result)[html_i], html_in_fence,
                                 TrimStart(Lines(san_result)[html_i])).fence
    /\ fence_lang' =
           IF html_in_fence = html_in_fence' THEN fence_lang
           ELSE HtmlLine(Lines(san_result)[html_i], html_in_fence,
                         TrimStart(Lines(san_result)[html_i])).lang
    /\ html_i' = html_i + 1
    /\ UNCHANGED <<html_pc, escVars, mdVars, sanVars, normVars, loadVars, appVars, dropVars>>

\* After the loop: close an open block, return.
HtmlFinish ==
    /\ html_pc = "loop"
    /\ html_i > Len(Lines(san_result))
    /\ html_out' = html_out \o HtmlClose(html_in_fence)
    /\ html_pc' = "done"
    /\ UNCHANGED <<html_i, html_in_fence, fence_lang, escVars, mdVars, sanVars, normVars,
                   loadVars, appVars, dropVars>>

HtmlNext == SanStep \/ SanFinish \/ HtmlStart \/ HtmlStep \/ HtmlFinish

SpecHtml == HtmlInit /\ [][HtmlNext]_vars

-----------------------------------------------------------------------------
(* Properties of the sanitizer, checked under SpecSan. *)

SanReturned == san_pc = "done"

\* C1: sanitize_chat_markdown is idempotent: the call on the result of a
\* call returns that result unchanged.
C1_Idempotent == (san_pass = 2 /\ SanReturned) => san_result = san_input

\* The number of lines of a text that are exactly three backticks.
ExactFenceLines(s) ==
    Cardinality({k \in 1..Len(Lines(s)) : Lines(s)[k] = Fence})

\* The number of lines of ls that the Outside/InsideFence scan takes as a
\* fence delimiter: an opener met outside, a closer met inside.
RECURSIVE FenceDelims(_, _)
FenceDelims(ls, inside) ==
    IF ls = <<>> THEN 0
    ELSE IF ~inside /\ IsFenceOpener(Head(ls)) THEN 1 + FenceDelims(Tail(ls), TRUE)
    ELSE IF inside /\ IsFenceCloser(Head(ls)) THEN 1 + FenceDelims(Tail(ls), FALSE)
    ELSE FenceDelims(Tail(ls), inside)

\* C2 as stated: in the output the number of lines that are exactly three
\* backticks is even.
C2_ExactFenceLinesEven == SanReturned => ExactFenceLines(san_result) % 2 = 0

\* C2 as amended: in the output the number of fence delimiter lines (openers,
\* with or without a language tag, plus closing lines) is even.
C2_FenceDelimsEven == SanReturned => FenceDelims(Lines(san_result), FALSE) % 2 = 0

\* A call returned a text with an opener that is not exactly three backticks
\* (a language tag or a trailing space) and the closer appended for it: two
\* delimiters, one line of exactly three backticks.
C2_Witness ==
    /\ SanReturned /\ san_pass = 1
    /\ FenceDelims(Lines(san_result), FALSE) = 2
    /\ ExactFenceLines(san_result) = 1
    /\ Len(san_out) = Len(Lines(san_input)) + 1

\* C3: leaving the loop inside a fence appends one line of exactly three
\* backticks and leaving it outside appends nothing; and the scan of a
\* sanitized text (the second call) leaves the loop outside a fence.
C3_ClosedAtEnd ==
    [][(san_pc = "loop" /\ san_pc' = "done") =>
          /\ san_out' = (IF in_fence THEN Append(san_out, Fence) ELSE san_out)
          /\ (san_pass = 2 => ~in_fence)]_vars

\* The first call appended a closing line and the scan of its result has
\* ended outside a fence.
C3_Witness ==
    /\ san_pass = 2 /\ SanReturned /\ ~in_fence
    /\ Len(san_out) > Len(Lines(san_text))
    /\ san_out[Len(san_out)] = Fence

\* A step of the loop: the line it reads and the line it pushes.
SanLoopStep == san_pc = "loop" /\ san_pc' = "loop" /\ san_i' = san_i + 1
SanLineRead == Lines(san_input)[san_i]
SanLineEmitted == san_out'[Len(san_out')]

\* C17: inside a fence every line is emitted unchanged, and the state
\* returns to Outside exactly on a line whose trimmed content is three
\* backticks; a line that starts with three backticks followed by other
\* text neither closes the fence nor is defused.
C17_InsideFencePassThrough ==
    [][(SanLoopStep /\ in_fence) =>
           /\ san_out' = Append(san_out, SanLineRead)
           /\ ~in_fence' <=> Trim(SanLineRead) = Fence]_vars

\* After an opener, a line of three backticks and a letter was read inside
\* the fence: it is in the output as it was and the fence is still open.
C17_Witness ==
    /\ san_pc = "loop" /\ san_i = 3 /\ in_fence
    /\ Lines(san_input)[1] = Fence
    /\ Lines(san_input)[2] = Fence \o <<"a">>
    /\ san_out = <<Fence, Fence \o <<"a">>>>

\* C18: a line read outside a fence and not accepted as an opener is
\* emitted so that it neither begins (after leading whitespace) nor ends
\* with three backticks.
C18_NoStrayFence ==
    [][(SanLoopStep /\ ~in_fence /\ ~IsFenceOpener(SanLineRead)) =>
           /\ ~StartsWith(TrimStart(SanLineEmitted), Fence)
           /\ ~EndsWith(SanLineEmitted, Fence)]_vars

-----------------------------------------------------------------------------
(* Properties of normalize, checked under SpecNorm. *)

NormReturned == norm_pc = "done"

IsSystemRecord(rm) == ToLowercase(rm.role) = StrSystem

\* A role that is none of system, user, assistant, compared case-insensitively.
Unrecognised(role) == ToLowercase(role) \notin {StrSystem, StrUser, StrAssistant}

\* The index of the first system record of rs, 0 if there is none.
FirstSystem(rs) ==
    IF \E i \in 1..Len(rs) : IsSystemRecord(rs[i])
    THEN CHOOSE i \in 1..Len(rs) :
             /\ IsSystemRecord(rs[i])
             /\ \A j \in 1..(i - 1) : ~IsSystemRecord(rs[j])
    ELSE 0

\* The position, among the turns, of record i (not the first system record).
TurnOf(rs, i) == IF FirstSystem(rs) # 0 /\ FirstSystem(rs) < i THEN i - 1 ELSE i

\* C7: a record with an unrecognised role becomes a Turn with role Other
\* carrying the role string in its original casing.
C7_OtherKeepsCasing ==
    NormReturned =>
        \A i \in 1..Len(raw) :
            Unrecognised(raw[i].role) =>
                /\ TurnOf(raw, i) <= Len(norm_loaded.messages)
                /\ norm_loaded.messages[TurnOf(raw, i)].role = RoleOther(raw[i].role)

\* C8: the first system record fills the system slot, every later system
\* record is the turn Other("System (extra)") at its position, and no record
\* is dropped: turns plus the filled slot are as many as the records.
C8_SystemDemotion ==
    NormReturned =>
        LET k == FirstSystem(raw)
            L == norm_loaded
        IN /\ (k = 0 => L.system = None)
           /\ (k # 0 => L.system = Some(NormContent(raw[k].content)))
           /\ Len(L.messages) + (IF L.system.some THEN 1 ELSE 0) = Len(raw)
           /\ \A j \in 1..Len(raw) :
                  (k # 0 /\ j > k /\ IsSystemRecord(raw[j])) =>
                      L.messages[j - 1] =
                          Msg(RoleOther(StrSystemExtra), NormContent(raw[j].content))

\* Three records, the second and the third are system records: the third is
\* the demoted turn.
C8_Witness ==
    /\ NormReturned
    /\ Len(raw) = 3
    /\ ~IsSystemRecord(raw[1]) /\ IsSystemRecord(raw[2]) /\ IsSystemRecord(raw[3])
    /\ raw[2].content # raw[3].content
    /\ norm_loaded.messages[2].role = RoleOther(StrSystemExtra)

\* The role tag a record's turn must carry.
TagOf(rm) ==
    IF ToLowercase(rm.role) = StrUser THEN "User"
    ELSE IF ToLowercase(rm.role) = StrAssistant THEN "Assistant"
    ELSE "Other"

\* C9: the turns are the records without the first system record, in input
\* order: turn t comes from record t before that record and from record
\* t + 1 after it.
C9_OrderPreserved ==
    NormReturned =>
        LET k == FirstSystem(raw)
            M == norm_loaded.messages
            src(t) == IF k = 0 \/ t < k THEN t ELSE t + 1
        IN /\ Len(M) = (IF k = 0 THEN Len(raw) ELSE Len(raw) - 1)
           /\ \A t \in 1..Len(M) :
                  /\ M[t].content = NormContent(raw[src(t)].content)
                  /\ M[t].role.tag = TagOf(raw[src(t)])

\* A system record between two turns with different roles and contents.
C9_Witness ==
    /\ NormReturned
    /\ Len(raw) = 3
    /\ FirstSystem(raw) = 2
    /\ TagOf(raw[1]) # TagOf(raw[3])
    /\ raw[1].content # raw[3].content
    /\ Len(norm_loaded.messages) = 2

AllWhitespace(c) == \A k \in 1..Len(c) : IsWhitespace(c[k])

\* o is c without some leading LF/CR and some trailing whitespace, and
\* nothing more of either is left to remove.
TrimmedOf(c, o) ==
    \E p \in 0..Len(c), q \in 0..Len(c) :
        /\ p + q <= Len(c)
        /\ o = SubSeq(c, p + 1, Len(c) - q)
        /\ \A k \in 1..p : c[k] \in {LF, CR}
        /\ \A k \in (Len(c) - q + 1)..Len(c) : IsWhitespace(c[k])
        /\ o # <<>>
        /\ Head(o) \notin {LF, CR}
        /\ o[Len(o)] \notin {SP, TAB, LF, CR}

\* The content normalize stored for record i.
StoredContent(i) ==
    IF i = FirstSystem(raw) THEN norm_loaded.system.val
    ELSE norm_loaded.messages[TurnOf(raw, i)].content

\* C10: every stored content is non-empty and not all whitespace; an empty
\* or all-whitespace content is stored as "(empty)"; any other content keeps
\* its leading spaces and tabs and has lost only trailing whitespace and
\* leading LF/CR.
C10_ContentNeverBlank ==
    NormReturned =>
        /\ \A t \in 1..Len(norm_loaded.messages) :
               ~AllWhitespace(norm_loaded.messages[t].content)
        /\ (norm_loaded.system.some => ~AllWhitespace(norm_loaded.system.val))
        /\ \A i \in 1..Len(raw) :
               IF AllWhitespace(raw[i].content)
               THEN StoredContent(i) = StrEmpty
               ELSE TrimmedOf(raw[i].content, StoredContent(i))

\* One record whose content is only whitespace, stored as the placeholder,
\* and one whose content has leading and trailing whitespace around a letter.
C10_Witness ==
    /\ NormReturned
    /\ \E i, j \in 1..Len(raw) :
           /\ raw[i].content = <<SP, LF>> /\ StoredContent(i) = StrEmpty
           /\ raw[j].content = <<SP, "b", LF>> /\ StoredContent(j) = <<SP, "b">>

-----------------------------------------------------------------------------
(* Properties of load_from_bytes, checked under SpecLoad. *)

LoadReturned == load_pc \in {"ok", "err"}

\* The lines of a text that decode as a record, in input order, and the
\* number of its non-blank lines that do not.
ValidRecords(doc) ==
    LET good == SelectSeq(doc.lines, LAMBDA l : l.kind = "rec")
    IN [k \in 1..Len(good) |-> good[k].rm]

InvalidLines(doc) == Cardinality({k \in 1..Len(doc.lines) : doc.lines[k].kind = "bad"})

IsParseWarning(w) == w.prefix = "" /\ w.msg = "JSONL line(s) failed to parse"

\* The load succeeded with the valid records of the text, normalized in
\* input order, and exactly one parse warning, which reports the count of
\* invalid lines.
PartialJsonlResult ==
    /\ load_res.ok
    /\ load_res.val.system = normalize(ValidRecords(bytes)).system
    /\ load_res.val.messages = normalize(ValidRecords(bytes)).messages
    /\ Len(load_res.val.messages) + (IF load_res.val.system.some THEN 1 ELSE 0)
           = Len(ValidRecords(bytes))
    /\ Cardinality({k \in 1..Len(load_res.val.errors) :
                        IsParseWarning(load_res.val.errors[k])}) = 1
    /\ \E k \in 1..Len(load_res.val.errors) :
           load_res.val.errors[k] = ParseWarning(InvalidLines(bytes))

\* C4 as stated: every text of lines with at least one invalid non-blank
\* line loads with its valid records and one parse warning, whichever line
\* comes first.
C4_PartialJsonl ==
    (LoadReturned /\ bytes.form = "lines" /\ InvalidLines(bytes) >= 1) => PartialJsonlResult

\* C4 as amended: the same, for texts whose first non-whitespace character
\* is not '['.
C4_PartialJsonlNoBracket ==
    (LoadReturned /\ bytes.form = "lines" /\ InvalidLines(bytes) >= 1
        /\ first_non_ws(bytes) # "[") => PartialJsonlResult

\* An invalid line first, then a record, then another invalid line: one
\* warning reporting 2.
C4_Witness ==
    /\ load_pc = "ok"
    /\ bytes.form = "lines" /\ Len(bytes.lines) = 3
    /\ bytes.lines[1] = LineBad(FALSE)
    /\ bytes.lines[2].kind = "rec"
    /\ bytes.lines[3] = LineBad(FALSE)
    /\ Len(load_res.val.messages) = 1
    /\ ParseWarning(2) = load_res.val.errors[1]

\* The text is parsed in array mode: it is UTF-8 and its first
\* non-whitespace character is '['.
ArrayMode == bytes.utf8 /\ first_non_ws(bytes) = "["

\* The text is one well-formed JSON array whose elements all decode.
AllElementsDecode ==
    /\ bytes.form = "array" /\ bytes.closed
    /\ \A k \in 1..Len(bytes.elems) : bytes.elems[k].ok

ElemRecords(doc) == [k \in 1..Len(doc.elems) |-> doc.elems[k].rm]

HasParseWarning(es) == \E k \in 1..Len(es) : IsParseWarning(es[k])

\* C11: in array mode the load is all-or-nothing: if an element does not
\* decode, or the text is not a well-formed array, load_from_bytes returns
\* the error "JSON array parse error" and no Loaded; otherwise every
\* element becomes a record of the result and there is no parse warning.
C11_ArrayAllOrNothing ==
    (LoadReturned /\ ArrayMode) =>
        IF AllElementsDecode
        THEN /\ load_res.ok
             /\ load_res.val.system = normalize(ElemRecords(bytes)).system
             /\ load_res.val.messages = normalize(ElemRecords(bytes)).messages
             /\ Len(load_res.val.messages) + (IF load_res.val.system.some THEN 1 ELSE 0)
                    = Len(bytes.elems)
             /\ ~HasParseWarning(load_res.val.errors)
        ELSE load_res = Err(ErrArray)

\* A well-formed array with one element that decodes and one that does not:
\* the load returned the error and nothing else.
C11_Witness ==
    /\ load_pc = "err"
    /\ bytes.form = "array" /\ bytes.closed /\ Len(bytes.elems) = 2
    /\ bytes.elems[1].ok /\ ~bytes.elems[2].ok
    /\ load_res = Err(ErrArray)

\* What the line-by-line parse of the text gives: its valid records,
\* normalized, and a parse warning exactly when a non-blank line is invalid.
JsonlResult ==
    /\ load_res.ok
    /\ load_res.val.system = normalize(ValidRecords(bytes)).system
    /\ load_res.val.messages = normalize(ValidRecords(bytes)).messages
    /\ HasParseWarning(load_res.val.errors) <=> InvalidLines(bytes) >= 1

\* C12: the mode depends only on the first non-whitespace character: with
\* '[' the text is parsed as one array (and a text of lines that starts
\* with '[' without being an array fails, it is not parsed again as JSONL);
\* with any other character, or none, it is parsed line by line.
C12_ModeByFirstChar ==
    (LoadReturned /\ bytes.utf8) =>
        IF first_non_ws(bytes) = "["
        THEN /\ load_res.ok => (AllElementsDecode /\ ~HasParseWarning(load_res.val.errors))
             /\ ~load_res.ok => load_res = Err(ErrArray)
             /\ bytes.form = "lines" => load_res = Err(ErrArray)
        ELSE JsonlResult

\* A text of lines whose first non-blank line is invalid and starts with
\* '[', followed by a line that decodes: the load failed in array mode.
C12_Witness ==
    /\ load_pc = "err"
    /\ bytes.form = "lines" /\ Len(bytes.lines) >= 2
    /\ bytes.lines[1] = LineBad(TRUE)
    /\ bytes.lines[2].kind = "rec"
    /\ load_res = Err(ErrArray)

\* A text with no non-whitespace character loaded in line mode: an empty
\* conversation.
C12_WitnessBlank ==
    /\ load_pc = "ok"
    /\ bytes.form = "lines" /\ first_non_ws(bytes) = "none"
    /\ load_res.val.messages = <<>>

\* The same content with a length of at most 20 MiB.
Smaller(doc) == [doc EXCEPT !.len = SizeLimit]

SizeWarnings(es) == Cardinality({k \in 1..Len(es) : es[k] = SizeWarning})

\* C13: a text of more than 20 MiB loads as the same text of at most 20 MiB
\* does (same failure, or same system and messages and the same warnings),
\* with one size warning after the other warnings; a text of at most
\* 20 MiB gets no size warning.
C13_SizeWarningLast ==
    LoadReturned =>
        IF bytes.len > SizeLimit
        THEN /\ load_res.ok <=> load_from_bytes(Smaller(bytes)).ok
             /\ ~load_res.ok => load_res = load_from_bytes(Smaller(bytes))
             /\ load_res.ok =>
                    /\ load_res.val.system = load_from_bytes(Smaller(bytes)).val.system
                    /\ load_res.val.messages = load_from_bytes(Smaller(bytes)).val.messages
                    /\ load_res.val.errors =
                           load_from_bytes(Smaller(bytes)).val.errors \o <<SizeWarning>>
                    /\ SizeWarnings(load_res.val.errors) = 1
        ELSE load_res.ok => SizeWarnings(load_res.val.errors) = 0

\* A text of more than 20 MiB with an invalid line: the parse warning, then
\* the size warning.
C13_Witness ==
    /\ load_pc = "ok"
    /\ bytes.len > SizeLimit
    /\ load_res.val.messages # <<>>
    /\ load_res.val.errors = <<ParseWarning(1), SizeWarning>>

-----------------------------------------------------------------------------
(* Properties of the handlers, checked under Spec. *)

\* The conversation fields of a Loaded are the ones the step installed.
InstalledFrom(l) ==
    /\ file_name' = l.file_name
    /\ system' = l.system
    /\ messages' = l.messages

\* C5: a load that fails leaves system, messages and file_name as they
\* were; a load that succeeds replaces the three together, by the values of
\* one loaded file.
C5_FailedLoadKeepsConversation ==
    [][/\ last' \in {"open_err", "drop_err"} => UNCHANGED <<file_name, system, messages>>
       /\ last' = "open_ok" =>
              \E p \in AppPaths : PathLoads[p].ok /\ InstalledFrom(PathLoads[p].val)
       /\ last' = "drop_ok" =>
              \E f \in DropItems :
                  f.kind # "none" /\ DropLoads[f].ok /\ InstalledFrom(DropLoads[f].val)]_vars

\* A load failed after a file had been installed: the conversation is still
\* there, with the error message after it.
C5_Witness ==
    /\ last \in {"open_err", "drop_err"}
    /\ file_name.some /\ messages # <<>>
    /\ errors # <<>> /\ errors[Len(errors)].prefix # ""

IsPrefix(a, b) == Len(a) <= Len(b) /\ SubSeq(b, 1, Len(a)) = a

-----------------------------------------------------------------------------
(* Properties of html_escape, checked under SpecEsc. *)

EscReturned == esc_i > Len(esc_s)

Entities == {EntAmp, EntLt, EntGt, EntQuot, EntBsl}

EntityChar(e) ==
    CASE e = EntAmp -> AMP [] e = EntLt -> LT [] e = EntGt -> GT
      [] e = EntQuot -> QUOT [] e = EntBsl -> BSL

\* Every "&" of t starts one of the five entities.
AmpsStartEntities(t) ==
    \A k \in 1..Len(t) :
        t[k] = AMP => \E e \in Entities : StartsWith(SubSeq(t, k, Len(t)), e)

\* t read back: an entity gives its character, any other character itself.
RECURSIVE Unescape(_)
Unescape(t) ==
    IF t = <<>> THEN <<>>
    ELSE IF \E e \in Entities : StartsWith(t, e)
    THEN LET e == CHOOSE e \in Entities : StartsWith(t, e)
         IN <<EntityChar(e)>> \o Unescape(SubSeq(t, Len(e) + 1, Len(t)))
    ELSE <<Head(t)>> \o Unescape(Tail(t))

\* The characters of s that are none of the five, in order.
Others(s) == SelectSeq(s, LAMBDA c : c \notin {AMP, LT, GT, QUOT, BSL})

\* The number of characters of s that are among the five.
Escaped(s) == Cardinality({k \in 1..Len(s) : s[k] \in {AMP, LT, GT, QUOT, BSL}})

\* C15: html_escape replaces the five characters by their entities and
\* copies every other character in order: the output has no raw "<", ">",
\* double quote or backslash, each "&" of it starts one of the five
\* entities, reading the entities back gives the input, and a string with
\* none of the five characters is returned as it is.
C15_EscapeFive ==
    EscReturned =>
        /\ \A k \in 1..Len(esc_out) : esc_out[k] \notin {LT, GT, QUOT, BSL}
        /\ AmpsStartEntities(esc_out)
        /\ Unescape(esc_out) = esc_s
        /\ Cardinality({k \in 1..Len(esc_out) : esc_out[k] = AMP}) = Escaped(esc_s)
        /\ (Escaped(esc_s) = 0 => esc_out = esc_s)

\* An ampersand, a backslash and an apostrophe were escaped: two entities,
\* and the apostrophe as it was.
C15_Witness ==
    /\ EscReturned
    /\ esc_s = <<AMP, BSL, APOS>>
    /\ esc_out = EntAmp \o EntBsl \o <<APOS>>

-----------------------------------------------------------------------------
(* Properties of to_markdown, checked under SpecMd. *)

MdReturned == md_pc = "done"

\* The label the template names for a role: User, Assistant, or the label
\* of Other with its first letter in upper case and the rest in lower case.
TitleCased(l, t) ==
    /\ Len(t) = Len(l)
    /\ \A k \in 1..Len(l) :
           t[k] = IF k = 1 THEN ToUpperChar(l[k]) ELSE ToLowerChar(l[k])

IsLabelOf(role, t) ==
    CASE role.tag = "User" -> t = <<"U", "s", "e", "r">>
      [] role.tag = "Assistant" -> t = <<"A", "s", "s", "i", "s", "t", "a", "n", "t">>
      [] role.tag = "Other" -> TitleCased(role.label, t)
      [] OTHER -> FALSE

\* t is the section of one turn: two stars, the label, two stars, two
\* spaces, a line feed, the content, two line feeds.
IsTurnSection(msg, t) ==
    \E n \in 1..Len(t) :
        /\ Len(t) = 2 + n + 5 + Len(msg.content) + 2
        /\ SubSeq(t, 1, 2) = <<"*", "*">>
        /\ IsLabelOf(msg.role, SubSeq(t, 3, 2 + n))
        /\ SubSeq(t, 3 + n, 7 + n) = <<"*", "*", SP, SP, LF>>
        /\ SubSeq(t, 8 + n, Len(t)) = msg.content \o <<LF, LF>>

\* t is the sections of the turns ms, in order.
RECURSIVE IsTurnSections(_, _)
IsTurnSections(ms, t) ==
    IF ms = <<>> THEN t = <<>>
    ELSE \E n \in 1..Len(t) :
            /\ IsTurnSection(Head(ms), SubSeq(t, 1, n))
            /\ IsTurnSections(Tail(ms), SubSeq(t, n + 1, Len(t)))

SystemHeader == <<"#", SP, "S", "y", "s", "t", "e", "m", LF>>
SystemRule == <<LF, LF, "-", "-", "-", LF, LF>>

\* C16: the output of to_markdown is the system section (header, the system
\* text as it is stored, the rule) exactly when the system slot is filled,
\* then one section per turn in conversation order; for an empty
\* conversation it is the empty string.
C16_MarkdownTemplate ==
    MdReturned =>
        /\ IF system.some
           THEN /\ StartsWith(md_out, SystemHeader \o system.val \o SystemRule)
                /\ IsTurnSections(messages,
                       SubSeq(md_out, Len(SystemHeader \o system.val \o SystemRule) + 1,
                              Len(md_out)))
           ELSE /\ ~StartsWith(md_out, SystemHeader)
                /\ IsTurnSections(messages, md_out)
        /\ (~system.some /\ messages = <<>>) => md_out = <<>>

\* A conversation with a system text the sanitizer would change, a user
\* turn and a turn of another role: the system text is in the output as it
\* is, and the other role has its title-cased label.
C16_Witness ==
    /\ MdReturned
    /\ system = Some(<<"a", BT, BT, BT>>)
    /\ Len(messages) = 2
    /\ messages[1].role = RoleUser
    /\ messages[2].role.tag = "Other"
    /\ md_out = SystemHeader \o <<"a", BT, BT, BT>> \o SystemRule
                 \o <<"*", "*", "U", "s", "e", "r", "*", "*", SP, SP, LF, "a", LF, LF>>
                 \o <<"*", "*", "T", "o", "o", "l", "*", "*", SP, SP, LF, "a", LF, LF>>

-----------------------------------------------------------------------------
(* Properties of the conversion to HTML, checked under SpecHtml. *)

HtmlReturned == html_pc = "done"

IsLangTag(l) ==
    l # <<>> /\ \A k \in 1..Len(l) : IsAlphanumeric(l[k]) \/ l[k] \in LangPunct

\* t is a content (as normalize stores it) made of an opening fence line
\* with a language tag, then code lines none of which closes the fence.
UnterminatedFence(t) ==
    /\ trim_chat_whitespace(t) = t
    /\ Len(Lines(t)) >= 2
    /\ StartsWith(Lines(t)[1], Fence)
    /\ IsLangTag(SubSeq(Lines(t)[1], 4, Len(Lines(t)[1])))
    /\ \A k \in 2..Len(Lines(t)) : Trim(Lines(t)[k]) # Fence

LangOf(t) == SubSeq(Lines(t)[1], 4, Len(Lines(t)[1]))

\* The HTML-escaped lines ls, each followed by a line feed.
RECURSIVE EscapedLines(_)
EscapedLines(ls) ==
    IF ls = <<>> THEN <<>>
    ELSE (html_escape(Head(ls)) \o <<LF>>) \o EscapedLines(Tail(ls))

ExampleText == ((Fence \o StrPython) \o <<LF>>) \o StrPrint1

TagCloseNoLineFeed == <<"<", "/", "c", "o", "d", "e", ">", "<", "/", "p", "r", "e", ">">>

\* C14 as stated: for the example the HTML is exactly the opening tag with
\* class language-python, print(1) and the closing tags.
C14_ExampleBlockExact ==
    (HtmlReturned /\ san_text = ExampleText) =>
        html_out = (((TagPreCodeLang \o StrPython) \o TagLangEnd) \o StrPrint1)
                       \o TagCloseNoLineFeed

\* C14 as amended: for an unterminated fence with language tag L the
\* sanitizer returns the same lines and one closing fence line, and the
\* HTML is the opening tag with class language-L, each escaped code line
\* followed by a line feed, and the closing tags followed by a line feed.
C14_UnterminatedFenceBlock ==
    UnterminatedFence(san_text) =>
        /\ SanReturned => Lines(san_result) = Append(Lines(san_text), Fence)
        /\ HtmlReturned =>
               html_out = (((TagPreCodeLang \o LangOf(san_text)) \o TagLangEnd)
                              \o EscapedLines(Tail(Lines(san_text)))) \o TagClose

\* The example was sanitized and converted.
C14_Witness ==
    /\ HtmlReturned
    /\ san_text = ExampleText
    /\ san_result = (ExampleText \o <<LF>>) \o Fence
    /\ html_out = ((((TagPreCodeLang \o StrPython) \o TagLangEnd) \o StrPrint1) \o <<LF>>)
                      \o TagClose

\* in_fence of the sanitizer after the first k lines of ls.
RECURSIVE SanFenceAfter(_, _)
SanFenceAfter(ls, k) ==
    IF k = 0 THEN FALSE ELSE SanLine(ls[k], SanFenceAfter(ls, k - 1)).fence

\* Whether the sanitizer was inside a fence when it emitted line k of its
\* output: the state it read input line k in, and inside for the closing
\* line it appended; outside past the end.
SanFenceBefore(k) ==
    IF k <= Len(Lines(san_text)) THEN SanFenceAfter(Lines(san_text), k - 1)
    ELSE k = Len(Lines(san_text)) + 1 /\ Len(san_out) > Len(Lines(san_text))

\* The number of places of s where pat starts.
CountSub(s, pat) ==
    Cardinality({k \in 1..Len(s) : StartsWith(SubSeq(s, k, Len(s)), pat)})

TagPreCodePrefix == <<"<", "p", "r", "e", ">", "<", "c", "o", "d", "e">>

\* C19: on the output of the sanitizer, text_to_html_with_fences is in a
\* fence on exactly the lines the sanitizer was in a fence for (so it opens
\* a block only on an opener of the sanitizer and closes it on its closing
\* line), it is outside a fence when the lines end, and it emits as many
\* openings of a block as closings.
C19_HtmlFollowsSanitizer ==
    /\ html_pc = "loop" => html_in_fence = SanFenceBefore(html_i)
    /\ (html_pc = "loop" /\ html_i > Len(Lines(san_result))) => ~html_in_fence
    /\ HtmlReturned =>
           CountSub(html_out, TagPreCodePrefix) = CountSub(html_out, TagCloseNoLineFeed)

\* A line of six backticks, defused, then an opener that the sanitizer
\* closed: one block in the HTML.
C19_Witness ==
    /\ HtmlReturned
    /\ Len(san_out) = 3
    /\ StartsWith(san_out[1], Defused)
    /\ san_out[2] = Fence /\ san_out[3] = Fence
    /\ CountSub(html_out, TagPreCode) = 1
    /\ EndsWith(html_out, TagClose)

-----------------------------------------------------------------------------
(* Properties of a drop of several files, checked under SpecDrop. *)

DropReturned == drop_pc = "done"

\* The file was tried and loaded; the file was tried and failed.
DropLoadsOk(f) == f.kind # "none" /\ DropLoads[f].ok
DropFails(f) == f.kind # "none" /\ ~DropLoads[f].ok

\* The message of a file that failed.
DropMessage(f) ==
    Warning(IF f.kind = "path" THEN "Failed to load dropped file: "
            ELSE "Failed to parse dropped bytes: ", DropLoads[f].err, 0)

FailedFiles(fs) == SelectSeq(fs, DropFails)

FirstLoaded(fs) == CHOOSE k \in 1..Len(fs) : DropLoadsOk(fs[k]) /\ \A j \in 1..(k - 1) : ~DropLoadsOk(fs[j])

\* C20: the files of a drop are tried in order; the first that loads is
\* installed, no later file is loaded, and the warnings are those of the
\* installed load only; if no file loads, system, messages and file name
\* are unchanged and one message per failed file, in order, has been
\* appended to the warnings.
C20_DropFirstThatLoads ==
    DropReturned =>
        /\ IF \E k \in 1..Len(dropped_files) : DropLoadsOk(dropped_files[k])
           THEN /\ drop_i = FirstLoaded(dropped_files)
                /\ file_name = DropLoads[dropped_files[FirstLoaded(dropped_files)]].val.file_name
                /\ system = DropLoads[dropped_files[FirstLoaded(dropped_files)]].val.system
                /\ messages = DropLoads[dropped_files[FirstLoaded(dropped_files)]].val.messages
                /\ errors = DropLoads[dropped_files[FirstLoaded(dropped_files)]].val.errors
           ELSE /\ file_name = self_before.file_name
                /\ system = self_before.system
                /\ messages = self_before.messages
                /\ errors = self_before.errors
                       \o [k \in 1..Len(FailedFiles(dropped_files)) |->
                              DropMessage(FailedFiles(dropped_files)[k])]
        /\ Self = DropLoop(dropped_files, self_before)

\* A file that cannot be read and then bytes that load, dropped on a
\* conversation with warnings: the bytes are installed and the warnings are
\* the parse warning of the bytes alone.
C20_Witness ==
    /\ DropReturned
    /\ self_before = SelfExportFailed
    /\ dropped_files = <<DropPath(PathGone), DropBytes(DocJsonl)>>
    /\ file_name = [some |-> TRUE, val |-> "(dropped)"]
    /\ errors = <<ParseWarning(1)>>

\* Two files that cannot be loaded, dropped on a conversation: it is still
\* there, with two more messages.
C20_WitnessNoneLoads ==
    /\ DropReturned
    /\ self_before = SelfOpened
    /\ Len(dropped_files) = 2
    /\ \A k \in 1..2 : DropFails(dropped_files[k])
    /\ messages = self_before.messages /\ messages # <<>>
    /\ Len(errors) = Len(self_before.errors) + 2

====
